---- MODULE Spec2Model ----
(***************************************************************************)
(* Author disambiguation engine (disambiguate_authors.py): blocking,       *)
(* co-author boost, connected-components clustering and the merge writer,  *)
(* run by one or two workers against one PostgreSQL store; and the         *)
(* dynamic-weight pair scorer of disambiguation_pipeline.py.               *)
(***************************************************************************)
EXTENDS Integers, Sequences, FiniteSets, TLC

\* ---------------------------------------------------------------- bounds
NumRecords == 4

\* ----------------------------------------------------- program constants
INITIAL_MATCH_THRESHOLD == 40
FINAL_ACCEPT_THRESHOLD == 70
BOOST_PER_COAUTHOR == 20
BOOST_CAP == 60
FLUSH_BATCH == 1000

\* The block-size ceiling of the design (spec 4.2); disambiguate_authors.py
\* has no such option.
BlockCeiling == 2

\* SQL NULL / Python None for a text value, and for a name (a character sequence).
NULL == "NULL"
NullName == <<"NULL">>
\* master_author_id IS NULL
NoMaster == 0

Ids == 1 .. NumRecords
Workers == {"w1", "w2"}

\* ------------------------------------------------------------ characters
\* SQL lower() on the characters the model uses.
LowerChar(c) ==
  CASE c = "A" -> "a"
    [] c = "B" -> "b"
    [] c = "L" -> "l"
    [] c = "I" -> "i"
    [] OTHER -> c

\* lower(s): NULL for NULL, else every character lower-cased.
Lower(s) == IF s = NullName THEN NullName ELSE [k \in 1 .. Len(s) |-> LowerChar(s[k])]

\* substring(s, 1, 1): NULL for NULL, "" for "", else the first character.
FirstChar(s) == IF s = NullName THEN NullName ELSE IF Len(s) = 0 THEN <<>> ELSE <<s[1]>>

\* Python truthiness of a fetched text value: None and "" are false.
Truthy(s) == s # NullName /\ s # <<>>

\* The (given_name, family_name) values ingestion may have stored.
NameChoices ==
  << [given |-> <<"A", "l">>, family |-> <<"L", "i">>],
     [given |-> <<"a">>, family |-> <<"L", "I">>],
     [given |-> <<"A", "n", "n">>, family |-> <<"L", "i">>],
     [given |-> <<"B", "o">>, family |-> <<"L", "i">>],
     [given |-> <<"A", "l">>, family |-> <<>>] >>

\* What textdistance.jaro_winkler(name_a, name_b) * 100 may return for two
\* different names of one block; for two equal names it returns 100.
ScoreChoices == {40, 50, 90}
SAME_NAME_SCORE == 100

\* test_authorship tables: (author_id, publication_id) rows.
AuthorshipChoices ==
  { {},
    {<<1, 1>>, <<2, 2>>, <<3, 1>>, <<3, 2>>} }

\* The orcid_id a record may carry; test_author.orcid_id is unique, so no
\* two records share a value other than NULL.
OrcidChoices(i) ==
  CASE i = 1 -> {NULL, "0000-0001"}
    [] i = 2 -> {NULL, "", "0000-0002"}
    [] OTHER -> {NULL}

VARIABLES
  given_name, family_name, orcid_id,  \* test_author columns (never updated by the engine)
  jaro_winkler,                       \* jaro_winkler * 100 of two different names of one block
  test_authorship,                    \* (author, publication) rows
  master_author_id,                   \* test_author.master_author_id, committed
  master_author,                      \* committed master_author rows
  match_candidates,                   \* committed match_candidates rows
  pc, completed,                      \* per worker: position in main(), a run has completed
  blocks, batch_inserts, block_log,   \* generate_candidates locals
  updates,                            \* score_and_boost local
  edges, clusters, todo,              \* cluster_and_merge locals
  cur, tx_master, tx_links, mids      \* the open transaction of cluster_and_merge

\* The pair scorer of disambiguation_pipeline.py, one pair at a time.
VARIABLES
  profile_a, profile_b,               \* the two AuthorProfile dicts
  name_similarity,                    \* what calculate_name_similarity returns for them
  spc,                                \* position in calculate_match_score / the decision
  S, C, RAW_W, total_raw_weight,      \* calculate_match_score locals
  DYN_W, final_score,
  decision                            \* process_disambig_batches: decision

scorer == <<profile_a, profile_b, name_similarity, spc, S, C, RAW_W,
            total_raw_weight, DYN_W, final_score, decision>>

statics == <<given_name, family_name, orcid_id, jaro_winkler, test_authorship>>
store == <<master_author_id, master_author, match_candidates>>
gen_locals == <<blocks, batch_inserts, block_log>>
merge_locals == <<edges, clusters, todo, cur, tx_master, tx_links, mids>>
engine == <<statics, store, pc, completed, gen_locals, updates, merge_locals>>
vars == <<engine, scorer>>

Pairs == {p \in Ids \X Ids : p[1] < p[2]}

\* ------------------------------------------------------------- blocking
\* A blocking key that leaves the first initial out.
BlockKeyFamilyOnly(i) ==
  [lname |-> Lower(family_name[i]), fname_init |-> <<"*">>]

\* Blocking key of a record: lower(family_name), lower(substring(given_name,1,1)).
BlockKey(i) ==
  [lname |-> Lower(family_name[i]), fname_init |-> Lower(FirstChar(given_name[i]))]

\* Every record, linked or not.
UnresolvedAll == Ids

\* WHERE master_author_id IS NULL
Unresolved == {i \in Ids : master_author_id[i] = NoMaster}

\* keys_sql: the distinct keys of the unprocessed records.
BlockingKeys == {BlockKey(i) : i \in Unresolved}

\* records_sql without its `AND master_author_id IS NULL`.
BlockRecordsAll(key) == {i \in Ids : BlockKey(i) = key}

\* records_sql: the unprocessed records of one block.
BlockRecords(key) == {i \in Unresolved : BlockKey(i) = key}

\* f"{given_name} {family_name}".lower()
LowerFull(i) == Lower(given_name[i] \o <<" ">> \o family_name[i])

\* score = textdistance.jaro_winkler(name_a, name_b) * 100
NameScore(a, b) ==
  IF LowerFull(a) = LowerFull(b) THEN SAME_NAME_SCORE
  ELSE jaro_winkler[{LowerFull(a), LowerFull(b)}]

\* The pairwise loop over one block: the pairs whose name score passes the
\* pre-filter, as rows to insert.
BlockPairs(recs) ==
  { [a |-> p[1], b |-> p[2], score |-> NameScore(p[1], p[2])] :
      p \in {q \in Pairs : q[1] \in recs /\ q[2] \in recs
                           /\ NameScore(q[1], q[2]) > INITIAL_MATCH_THRESHOLD} }

\* The body of the loop over blocks for one key: the rows it appends.
BlockOutput(key) ==
  IF ~Truthy(key.lname) \/ ~Truthy(key.fname_init) THEN {}
  ELSE IF Cardinality(BlockRecords(key)) < 2 THEN {}
  ELSE BlockPairs(BlockRecords(key))

\* Whether the loop body left the block by one of its `continue`s.
BlockSkipped(key) ==
  \/ ~Truthy(key.lname) \/ ~Truthy(key.fname_init)
  \/ Cardinality(BlockRecords(key)) < 2

\* A freshly inserted match_candidates row (column defaults).
CandidateRow(r) ==
  [author_id_a |-> r.a, author_id_b |-> r.b, name_score |-> r.score,
   coauthor_boost |-> 0, total_score |-> 0]

\* No cluster in hand; no row of test_author written by the transaction.
NoCur == [cluster |-> {}, rows |-> <<>>, best_name |-> <<>>, best_orcid |-> NULL,
          mid |-> NoMaster]
NoLinks == [i \in Ids |-> NoMaster]

\* Python truthiness of orcid_id.
OrcidSet(o) == o # NULL /\ o # ""

\* ---------------------------------------------------------- pair scorer
\* Similarities are multiples of 1/Unit, so that the Jaccard index of sets
\* of up to three elements and the values 0.1 and 0.7 are exact.
Unit == 60

\* Weights and confidences are hundredths: 0.40 is 40.
W_BASE ==
  [ID |-> 40, PUBS |-> 25, NAME |-> 15, COAUTHORS |-> 10, AFFILIATION |-> 5, KEYWORDS |-> 5]

Keys == DOMAIN W_BASE

\* `if S[key] > 0.1`
LOW_FLOOR == Unit \div 10

\* `W_BASE[key] * 0.1`, in hundredths
PENALTY == 10

\* `if score > 0.7`, as numerator and denominator
DECISION_THRESHOLD == [num |-> 7, den |-> 10]

\* get_name_confidence and get_affiliation_confidence return 0.5 for every argument.
get_name_confidence == 50
get_affiliation_confidence == 50

\* What jellyfish.jaro_winkler_similarity can give as the best score of
\* the two name sets: 0, 0.1, 0.7, 1.
NameSimChoices == {0, Unit \div 10, (7 * Unit) \div 10, Unit}

\* The two list arguments of one Jaccard signal.
ListPairChoices ==
  << [a |-> <<>>, b |-> <<>>],
     [a |-> << <<"x">> >>, b |-> <<>>],
     [a |-> << <<>> >>, b |-> << <<>> >>],
     [a |-> << <<"X">> >>, b |-> << <<"x">> >>],
     [a |-> << <<"x">> >>, b |-> << <<"y">> >>],
     [a |-> << <<"x">> >>, b |-> << <<"x">>, <<"y">>, <<"z">> >>],
     [a |-> << <<"x">>, <<"y">> >>, b |-> << <<"y">>, <<"x">>, <<>> >>] >>

\* identifiers["orcid"] of the two profiles.
OrcidPairChoices ==
  { [a |-> "o_001", b |-> NULL], [a |-> "o_001", b |-> "o_001"],
    [a |-> "o_001", b |-> "o_002"], [a |-> "", b |-> ""] }

\* {str(item).lower() for item in list if item}
ItemSet(list) == {Lower(list[k]) : k \in {j \in DOMAIN list : Truthy(list[j])}}

\* calculate_jaccard_similarity
calculate_jaccard_similarity(list_a, list_b) ==
  LET set_a == ItemSet(list_a)
      set_b == ItemSet(list_b)
  IN IF set_a = {} /\ set_b = {} THEN Unit
     ELSE IF set_a = {} \/ set_b = {} THEN 0
     ELSE (Cardinality(set_a \cap set_b) * Unit) \div Cardinality(set_a \cup set_b)

\* calculate_id_similarity
calculate_id_similarity(a, b) ==
  IF OrcidSet(a.orcid) /\ OrcidSet(b.orcid) /\ a.orcid = b.orcid THEN Unit ELSE 0

\* S: the six similarities of a pair.
Similarities(a, b, name_sim) ==
  [ID |-> calculate_id_similarity(a, b),
   NAME |-> name_sim,
   PUBS |-> calculate_jaccard_similarity(a.publication_titles, b.publication_titles),
   COAUTHORS |-> calculate_jaccard_similarity(a.co_authors, b.co_authors),
   AFFILIATION |-> calculate_jaccard_similarity(a.affiliations, b.affiliations),
   KEYWORDS |-> calculate_jaccard_similarity(a.keywords, b.keywords)]

\* sum(get_affiliation_confidence(a) for a in affiliations) / (len(affiliations) or 1)
AvgConf(affiliations) ==
  (Len(affiliations) * get_affiliation_confidence)
     \div (IF Len(affiliations) = 0 THEN 1 ELSE Len(affiliations))

\* C: the six confidences of a pair.
Confidences(a, b) ==
  [ID |-> 100, PUBS |-> 90, COAUTHORS |-> 80, KEYWORDS |-> 70,
   NAME |-> (get_name_confidence + get_name_confidence) \div 2,
   AFFILIATION |-> (AvgConf(a.affiliations) + AvgConf(b.affiliations)) \div 2]

\* The raw weight with a penalty factor of 0 in place of 0.1.
RawWeightZeroPenalty(key, s, c) ==
  IF s[key] > LOW_FLOOR THEN W_BASE[key] * c[key] * 100 ELSE 0

\* RAW_W[key], in millionths.
RawWeight(key, s, c) ==
  IF s[key] > LOW_FLOOR THEN W_BASE[key] * c[key] * 100
  ELSE W_BASE[key] * PENALTY * 100

RECURSIVE Sum(_, _)
\* sum(f.values()) over the keys D.
Sum(f, D) ==
  IF D = {} THEN 0
  ELSE LET k == CHOOSE x \in D : TRUE IN f[k] + Sum(f, D \ {k})

\* `return 0.0`
ZeroScore == [num |-> 0, den |-> 1]

NoProfile == [orcid |-> NULL, publication_titles |-> <<>>, co_authors |-> <<>>,
              affiliations |-> <<>>, keywords |-> <<>>]
NoWeights == [k \in Keys |-> 0]
NoDynWeights == [k \in Keys |-> ZeroScore]

\* No pair is being scored.
ScorerIdle ==
  /\ profile_a = NoProfile
  /\ profile_b = NoProfile
  /\ name_similarity = 0
  /\ spc = "off"
  /\ S = NoWeights
  /\ C = NoWeights
  /\ RAW_W = NoWeights
  /\ total_raw_weight = 0
  /\ DYN_W = NoDynWeights
  /\ final_score = ZeroScore
  /\ decision = "NONE"

\* calculate_match_score, the similarities.
ComputeSimilarities ==
  /\ spc = "start"
  /\ S' = Similarities(profile_a, profile_b, name_similarity)
  /\ spc' = "similarities"
  /\ UNCHANGED <<engine, profile_a, profile_b, name_similarity, C, RAW_W,
                 total_raw_weight, DYN_W, final_score, decision>>

\* calculate_match_score, the confidences and the raw weights.
ComputeRawWeights ==
  /\ spc = "similarities"
  /\ C' = Confidences(profile_a, profile_b)
  /\ RAW_W' = [key \in Keys |-> RawWeight(key, S, C')]
  /\ spc' = "weights"
  /\ UNCHANGED <<engine, profile_a, profile_b, name_similarity, S,
                 total_raw_weight, DYN_W, final_score, decision>>

\* calculate_match_score, the dynamic weights and the final score.
ComputeFinalScore ==
  /\ spc = "weights"
  /\ total_raw_weight' = Sum(RAW_W, Keys)
  /\ IF total_raw_weight' = 0
     THEN /\ final_score' = ZeroScore
          /\ UNCHANGED DYN_W
     ELSE /\ DYN_W' = [key \in Keys |-> [num |-> RAW_W[key], den |-> total_raw_weight']]
          /\ final_score' = [num |-> Sum([key \in Keys |-> S[key] * RAW_W[key]], Keys),
                             den |-> Unit * total_raw_weight']
  /\ spc' = "scored"
  /\ UNCHANGED <<engine, profile_a, profile_b, name_similarity, S, C, RAW_W, decision>>

\* score > 0.7
AboveThreshold(score) ==
  score.num * DECISION_THRESHOLD.den > DECISION_THRESHOLD.num * score.den

\* process_disambig_batches, the decision for the scored pair.
Decide ==
  /\ spc = "scored"
  /\ decision' = IF AboveThreshold(final_score) THEN "MATCH" ELSE "NO_MATCH"
  /\ spc' = "decided"
  /\ UNCHANGED <<engine, profile_a, profile_b, name_similarity, S, C, RAW_W,
                 total_raw_weight, DYN_W, final_score>>

\* ---------------------------------------------------------------- Init
\* The store as ingestion left it, no worker running.
InitStore ==
  /\ \E pick \in [Ids -> 1 .. Len(NameChoices)] :
       \* ids are handed out in the order of NameChoices: a relabelling of the records
       /\ \A i, j \in Ids : i < j => pick[i] <= pick[j]
       /\ given_name = [i \in Ids |-> NameChoices[pick[i]].given]
       /\ family_name = [i \in Ids |-> NameChoices[pick[i]].family]
  /\ orcid_id \in [Ids -> UNION {OrcidChoices(i) : i \in Ids}]
  /\ \A i \in Ids : orcid_id[i] \in OrcidChoices(i)
  /\ LET compared == {p \in Pairs : /\ BlockKey(p[1]) = BlockKey(p[2])
                                       /\ Truthy(BlockKey(p[1]).lname)
                                       /\ LowerFull(p[1]) # LowerFull(p[2])}
     IN jaro_winkler \in [{{LowerFull(p[1]), LowerFull(p[2])} : p \in compared}
                            -> ScoreChoices]
  /\ test_authorship \in AuthorshipChoices
  /\ master_author_id = [i \in Ids |-> NoMaster]
  /\ master_author = {}
  /\ match_candidates = {}
  /\ pc = [w \in Workers |-> "idle"]
  /\ completed = [w \in Workers |-> FALSE]
  /\ blocks = [w \in Workers |-> {}]
  /\ batch_inserts = [w \in Workers |-> {}]
  /\ block_log = [w \in Workers |-> {}]
  /\ updates = [w \in Workers |-> {}]
  /\ edges = [w \in Workers |-> {}]
  /\ clusters = [w \in Workers |-> {}]
  /\ todo = [w \in Workers |-> <<>>]
  /\ cur = [w \in Workers |-> NoCur]
  /\ tx_master = [w \in Workers |-> {}]
  /\ tx_links = [w \in Workers |-> NoLinks]
  /\ mids = [w \in Workers |-> {}]

Init == InitStore /\ ScorerIdle

\* ------------------------------------------------------------- main()
\* main() is started (again) by a worker; the locals of an earlier run are gone.
StartRun(w) ==
  /\ pc[w] \in {"idle", "done", "failed"}
  /\ completed' = [completed EXCEPT ![w] = @ \/ pc[w] = "done"]
  /\ pc' = [pc EXCEPT ![w] = "setup"]
  /\ blocks' = [blocks EXCEPT ![w] = {}]
  /\ batch_inserts' = [batch_inserts EXCEPT ![w] = {}]
  /\ block_log' = [block_log EXCEPT ![w] = {}]
  /\ updates' = [updates EXCEPT ![w] = {}]
  /\ edges' = [edges EXCEPT ![w] = {}]
  /\ clusters' = [clusters EXCEPT ![w] = {}]
  /\ todo' = [todo EXCEPT ![w] = <<>>]
  /\ cur' = [cur EXCEPT ![w] = NoCur]
  /\ mids' = [mids EXCEPT ![w] = {}]
  /\ UNCHANGED <<scorer, statics, store, tx_master, tx_links>>

\* setup_candidate_table: DROP TABLE IF EXISTS + CREATE TABLE in one transaction.
SetupCandidateTable(w) ==
  /\ pc[w] = "setup"
  /\ match_candidates' = {}
  /\ pc' = [pc EXCEPT ![w] = "keys"]
  /\ UNCHANGED <<scorer, statics, master_author_id, master_author,
                 completed, gen_locals, updates, merge_locals>>

\* generate_candidates, keys_sql: fetch the distinct blocking keys.
FetchBlocks(w) ==
  /\ pc[w] = "keys"
  /\ blocks' = [blocks EXCEPT ![w] = BlockingKeys]
  /\ batch_inserts' = [batch_inserts EXCEPT ![w] = {}]
  /\ block_log' = [block_log EXCEPT ![w] = {}]
  /\ pc' = [pc EXCEPT ![w] = "blocking"]
  /\ UNCHANGED <<scorer, statics, store, completed, updates, merge_locals>>

\* generate_candidates, one iteration of the loop over blocks (in the order
\* the keys query returned them, which SQL leaves open), with the batch
\* flush that ends the iteration.
GenerateBlock(w) ==
  /\ pc[w] = "blocking"
  /\ \E key \in blocks[w] :
       LET out == BlockOutput(key)
           batch == batch_inserts[w] \cup out
       IN /\ blocks' = [blocks EXCEPT ![w] = @ \ {key}]
          /\ block_log' = [block_log EXCEPT ![w] = @ \cup
                 {[key |-> key, members |-> BlockRecords(key), pairs |-> out,
                   skipped |-> BlockSkipped(key)]}]
          /\ IF ~BlockSkipped(key) /\ Cardinality(batch) > FLUSH_BATCH
             THEN /\ match_candidates' = match_candidates \cup {CandidateRow(r) : r \in batch}
                  /\ batch_inserts' = [batch_inserts EXCEPT ![w] = {}]
             ELSE /\ match_candidates' = match_candidates
                  /\ batch_inserts' = [batch_inserts EXCEPT ![w] = batch]
  /\ UNCHANGED <<scorer, statics, master_author_id, master_author,
                 pc, completed, updates, merge_locals>>

\* Primary key (author_id_a, author_id_b) of match_candidates.
PkConflict(batch) ==
  \E r \in batch : \E c \in match_candidates :
     c.author_id_a = r.a /\ c.author_id_b = r.b

\* generate_candidates, after the loop: flush the remaining rows.
FlushCandidates(w) ==
  /\ pc[w] = "blocking"
  /\ blocks[w] = {}
  /\ ~PkConflict(batch_inserts[w])
  /\ match_candidates' = match_candidates \cup {CandidateRow(r) : r \in batch_inserts[w]}
  /\ pc' = [pc EXCEPT ![w] = "score"]
  /\ UNCHANGED <<scorer, statics, master_author_id, master_author,
                 completed, gen_locals, updates, merge_locals>>

\* ------------------------------------------------------ score_and_boost
\* overlap_sql: the number of distinct third authors who are on some
\* publication of id_a and on some publication of id_b.
SharedCount(id_a, id_b) ==
  LET pubs(x) == {r[2] : r \in {q \in test_authorship : q[1] = x}}
      authors == {r[1] : r \in test_authorship}
  IN Cardinality({c \in authors \ {id_a, id_b} :
        /\ \E p \in pubs(id_a) : <<c, p>> \in test_authorship
        /\ \E p \in pubs(id_b) : <<c, p>> \in test_authorship})

Min(x, y) == IF x < y THEN x ELSE y

\* The co-author boost of a pair.
Boost(shared_count) ==
  IF shared_count > 0 THEN Min(shared_count * BOOST_PER_COAUTHOR, BOOST_CAP) ELSE 0

\* The update score_and_boost prepares for one candidate row.
ScoreUpdate(row) ==
  LET boost == Boost(SharedCount(row.author_id_a, row.author_id_b))
  IN [a |-> row.author_id_a, b |-> row.author_id_b,
      boost |-> boost, total |-> row.name_score + boost]

\* score_and_boost, the fetch and the loop over the candidates; with no
\* candidate it returns at once.
ScoreRead(w) ==
  /\ pc[w] = "score"
  /\ updates' = [updates EXCEPT ![w] = {ScoreUpdate(row) : row \in match_candidates}]
  /\ pc' = [pc EXCEPT ![w] = IF match_candidates = {} THEN "load" ELSE "score_write"]
  /\ UNCHANGED <<scorer, statics, store, completed, gen_locals, merge_locals>>

\* The rows of match_candidates after the bulk UPDATE of a set of updates.
ApplyUpdates(rows, ups) ==
  { IF \E u \in ups : u.a = r.author_id_a /\ u.b = r.author_id_b
    THEN LET u == CHOOSE x \in ups : x.a = r.author_id_a /\ x.b = r.author_id_b
         IN [r EXCEPT !.coauthor_boost = u.boost, !.total_score = u.total]
    ELSE r : r \in rows }

\* score_and_boost, the bulk UPDATE (one transaction).
ScoreWrite(w) ==
  /\ pc[w] = "score_write"
  /\ match_candidates' = ApplyUpdates(match_candidates, updates[w])
  /\ pc' = [pc EXCEPT ![w] = "load"]
  /\ UNCHANGED <<scorer, statics, master_author_id, master_author,
                 completed, gen_locals, updates, merge_locals>>

\* ----------------------------------------------------- cluster_and_merge
\* The accepted pairs: total_score >= FINAL_ACCEPT_THRESHOLD.
AcceptedEdges ==
  { <<r.author_id_a, r.author_id_b>> :
      r \in {c \in match_candidates : c.total_score >= FINAL_ACCEPT_THRESHOLD} }

\* The neighbours of S only, not what lies beyond them.
ReachOneHop(N, E) ==
  N \cup {e[2] : e \in {x \in E : x[1] \in N}} \cup {e[1] : e \in {x \in E : x[2] \in N}}

RECURSIVE Reach(_, _)
\* The nodes reachable from the set N over the undirected edges E.
Reach(N, E) ==
  LET N2 == N \cup {e[2] : e \in {x \in E : x[1] \in N}}
                \cup {e[1] : e \in {x \in E : x[2] \in N}}
  IN IF N2 = N THEN N ELSE Reach(N2, E)

\* nx.connected_components of the graph built from the edges: its nodes are
\* the endpoints of the edges.
Components(E) ==
  LET nodes == {e[1] : e \in E} \cup {e[2] : e \in E}
  IN {Reach({n}, E) : n \in nodes}

\* All orders in which the elements of a finite set can be listed.
Perms(N) ==
  {f \in [1 .. Cardinality(N) -> N] : \A i, j \in 1 .. Cardinality(N) : i # j => f[i] # f[j]}

\* cluster_and_merge, the load of the accepted pairs, the graph and its
\* components; with no accepted pair it returns at once.  The list of
\* clusters follows the row order of the SELECT, which SQL leaves open.
LoadEdges(w) ==
  /\ pc[w] = "load"
  /\ edges' = [edges EXCEPT ![w] = AcceptedEdges]
  /\ clusters' = [clusters EXCEPT ![w] = Components(AcceptedEdges)]
  /\ \E order \in Perms(Components(AcceptedEdges)) :
       todo' = [todo EXCEPT ![w] = order]
  /\ cur' = [cur EXCEPT ![w] = NoCur]
  /\ tx_master' = [tx_master EXCEPT ![w] = {}]
  /\ tx_links' = [tx_links EXCEPT ![w] = NoLinks]
  /\ mids' = [mids EXCEPT ![w] = {}]
  /\ pc' = [pc EXCEPT ![w] = IF AcceptedEdges = {} THEN "done" ELSE "select"]
  /\ UNCHANGED <<scorer, statics, store, completed, gen_locals, updates>>

\* f"{given_name or ''} {family_name or ''}".strip()
FullName(i) ==
  LET g == IF Truthy(given_name[i]) THEN given_name[i] ELSE <<>>
      f == IF Truthy(family_name[i]) THEN family_name[i] ELSE <<>>
  IN IF g = <<>> THEN f ELSE IF f = <<>> THEN g ELSE g \o <<" ">> \o f

RECURSIVE BestName(_, _, _)
\* The loop over name_res, the name part: the first of the longest full
\* names, "Unknown" when every full name is empty.
BestName(rows, k, best) ==
  IF k > Len(rows) THEN best
  ELSE BestName(rows, k + 1,
         IF Len(FullName(rows[k])) > (IF best = <<"Unknown">> THEN 0 ELSE Len(best))
         THEN FullName(rows[k]) ELSE best)

RECURSIVE BestOrcid(_, _, _)
\* The loop over name_res, the identifier part: every row with an orcid_id
\* overwrites best_orcid.
BestOrcid(rows, k, best) ==
  IF k > Len(rows) THEN best
  ELSE BestOrcid(rows, k + 1, IF OrcidSet(orcid_id[rows[k]]) THEN orcid_id[rows[k]] ELSE best)

\* cluster_and_merge, step A of one cluster: the SELECT of the members'
\* names (its row order is left open by SQL) and the choice of best_name and
\* best_orcid.
SelectNames(w) ==
  /\ pc[w] = "select"
  /\ todo[w] # <<>>
  /\ \E rows \in Perms(Head(todo[w])) :
       cur' = [cur EXCEPT ![w] =
                 [cluster |-> Head(todo[w]),
                  rows |-> rows,
                  best_name |-> BestName(rows, 1, <<"Unknown">>),
                  best_orcid |-> BestOrcid(rows, 1, NULL),
                  mid |-> NoMaster]]
  /\ pc' = [pc EXCEPT ![w] = "insert"]
  /\ UNCHANGED <<scorer, statics, store, completed, gen_locals, updates,
                 edges, clusters, todo, tx_master, tx_links, mids>>

\* master_author as the transaction of w sees it: the committed rows with
\* its own inserts and updates on top.
MasterView(w) ==
  {r \in master_author : \A t \in tx_master[w] : t.id # r.id} \cup tx_master[w]

\* The id the sequence of master_author.id hands to the next inserted row:
\* one no committed row and no row of an open transaction carries.
FreshId ==
  LET used == {r.id : r \in master_author \cup UNION {tx_master[v] : v \in Workers}}
  IN IF used = {} THEN 1 ELSE 1 + CHOOSE m \in used : \A x \in used : x <= m

\* Another open transaction holds the unique-index entry of this ORCID (it
\* has inserted or updated the row and not yet committed): the INSERT waits.
OrcidLocked(w, o) ==
  \E v \in Workers \ {w} : \E t \in tx_master[v] : t.primary_orcid = o

\* INSERT ... ON CONFLICT (primary_orcid) DO UPDATE SET canonical_name
\* ... RETURNING id, on the rows the transaction sees: the rows it writes
\* and the id it returns.
Upsert(view, name, o, fresh) ==
  IF \E r \in view : r.primary_orcid = o
  THEN LET r == CHOOSE x \in view : x.primary_orcid = o
       IN [row |-> [r EXCEPT !.canonical_name = name], inserted |-> FALSE]
  ELSE [row |-> [id |-> fresh, canonical_name |-> name, primary_orcid |-> o],
        inserted |-> TRUE]

\* INSERT INTO master_author (canonical_name) ... RETURNING id.
PlainInsert(name, fresh) ==
  [row |-> [id |-> fresh, canonical_name |-> name, primary_orcid |-> NULL],
   inserted |-> TRUE]

\* cluster_and_merge, step B of one cluster: insert (or, with an ORCID,
\* upsert) the master row.
InsertMaster(w) ==
  /\ pc[w] = "insert"
  /\ OrcidSet(cur[w].best_orcid) => ~OrcidLocked(w, cur[w].best_orcid)
  /\ LET res == IF OrcidSet(cur[w].best_orcid)
                THEN Upsert(MasterView(w), cur[w].best_name, cur[w].best_orcid, FreshId)
                ELSE PlainInsert(cur[w].best_name, FreshId)
     IN /\ tx_master' = [tx_master EXCEPT ![w] =
                           {t \in @ : t.id # res.row.id} \cup {res.row}]
        /\ cur' = [cur EXCEPT ![w].mid = res.row.id]
  /\ pc' = [pc EXCEPT ![w] = "link"]
  /\ UNCHANGED <<scorer, statics, master_author_id, master_author, match_candidates,
                 completed, gen_locals, updates, edges, clusters, todo, tx_links, mids>>

\* An UPDATE that reaches the first member only.
LinkUpdateFirstOnly(links, ids, mid) ==
  [i \in Ids |-> IF i \in ids /\ (\A j \in ids : i <= j) THEN mid ELSE links[i]]

\* UPDATE test_author SET master_author_id = :mid WHERE id IN ids.
LinkUpdate(links, ids, mid) == [i \in Ids |-> IF i \in ids THEN mid ELSE links[i]]

\* Another open transaction has updated one of these test_author rows and
\* not yet committed: the UPDATE waits for the row lock.
RowLocked(w, ids) ==
  \E v \in Workers \ {w} : \E i \in ids : tx_links[v][i] # NoMaster

\* cluster_and_merge, step C of one cluster: link the members.
LinkRecords(w) ==
  /\ pc[w] = "link"
  /\ ~RowLocked(w, cur[w].cluster)
  /\ tx_links' = [tx_links EXCEPT ![w] = LinkUpdate(@, cur[w].cluster, cur[w].mid)]
  /\ mids' = [mids EXCEPT ![w] = @ \cup {cur[w]}]
  /\ todo' = [todo EXCEPT ![w] = Tail(@)]
  /\ cur' = [cur EXCEPT ![w] = NoCur]
  /\ pc' = [pc EXCEPT ![w] = "select"]
  /\ UNCHANGED <<scorer, statics, store, completed, gen_locals, updates, edges, clusters, tx_master>>

\* test_author.master_author_id after the commit of a transaction's links.
CommitLinks(committed, links) ==
  [i \in Ids |-> IF links[i] # NoMaster THEN links[i] ELSE committed[i]]

\* cluster_and_merge, the end of `with engine.begin()`: the one commit after
\* the loop over all clusters.
Commit(w) ==
  /\ pc[w] = "select"
  /\ todo[w] = <<>>
  /\ master_author' = MasterView(w)
  /\ master_author_id' = CommitLinks(master_author_id, tx_links[w])
  /\ tx_master' = [tx_master EXCEPT ![w] = {}]
  /\ tx_links' = [tx_links EXCEPT ![w] = NoLinks]
  /\ pc' = [pc EXCEPT ![w] = "done"]
  /\ UNCHANGED <<scorer, statics, match_candidates, completed, gen_locals,
                 updates, edges, clusters, todo, cur, mids>>

\* A statement of the merge transaction raises (connection loss, a
\* constraint violation, a crash of the worker).  An error of the upsert is
\* caught, but the fallback SELECT runs in the aborted transaction and
\* raises too; the exception leaves `with engine.begin()`, which rolls the
\* whole transaction back, and main() ends with it.
MergeError(w) ==
  /\ pc[w] \in {"select", "insert", "link"}
  /\ tx_master' = [tx_master EXCEPT ![w] = {}]
  /\ tx_links' = [tx_links EXCEPT ![w] = NoLinks]
  /\ pc' = [pc EXCEPT ![w] = "failed"]
  /\ UNCHANGED <<scorer, statics, store, completed, gen_locals, updates,
                 edges, clusters, todo, cur, mids>>

\* flush_candidates when another run has inserted one of the pairs since the
\* table was reset: the INSERT violates the primary key, nothing catches
\* the IntegrityError and main() ends with it.
FlushConflict(w) ==
  /\ pc[w] = "blocking"
  /\ blocks[w] = {}
  /\ PkConflict(batch_inserts[w])
  /\ pc' = [pc EXCEPT ![w] = "failed"]
  /\ UNCHANGED <<scorer, statics, store, completed, gen_locals, updates, merge_locals>>

\* The statement w is about to run waits for a lock the open transaction of
\* v holds.
WaitsFor(w, v) ==
  \/ /\ pc[w] = "insert"
     /\ OrcidSet(cur[w].best_orcid)
     /\ \E t \in tx_master[v] : t.primary_orcid = cur[w].best_orcid
  \/ /\ pc[w] = "link"
     /\ \E i \in cur[w].cluster : tx_links[v][i] # NoMaster

\* Two merge transactions wait for each other: PostgreSQL ends the wait of
\* one of them with a "deadlock detected" error.  As with any error of a
\* statement, the transaction is rolled back and main() ends.
DeadlockAbort(w) ==
  /\ \E v \in Workers \ {w} : WaitsFor(w, v) /\ WaitsFor(v, w)
  /\ tx_master' = [tx_master EXCEPT ![w] = {}]
  /\ tx_links' = [tx_links EXCEPT ![w] = NoLinks]
  /\ pc' = [pc EXCEPT ![w] = "failed"]
  /\ UNCHANGED <<scorer, statics, store, completed, gen_locals, updates,
                 edges, clusters, todo, cur, mids>>

\* ------------------------------------------------------- specifications
Step(w) ==
  \/ StartRun(w)
  \/ SetupCandidateTable(w)
  \/ FetchBlocks(w)
  \/ GenerateBlock(w)
  \/ FlushCandidates(w)
  \/ ScoreRead(w)
  \/ ScoreWrite(w)
  \/ LoadEdges(w)
  \/ SelectNames(w)
  \/ InsertMaster(w)
  \/ LinkRecords(w)
  \/ Commit(w)
  \/ MergeError(w)

\* One worker running main() again and again.
Next == Step("w1")

Spec == Init /\ [][Next]_vars

\* A store with two blocks of two records each, every pair of a block
\* scoring above the accept threshold, for two workers to resolve at once.
InitConc ==
  /\ Init
  /\ test_authorship = {}
  /\ \A i \in Ids : i <= 2 => given_name[i] = <<"A", "l">> /\ family_name[i] = <<"L", "i">>
  /\ \A i \in Ids : i > 2 /\ i <= 4 => given_name[i] = <<"B", "o">>
  /\ \A i \in Ids : i > 4 => family_name[i] = <<>>
  /\ orcid_id[2] # ""

\* In the concurrent scenario each worker runs main() once.
StartOnce(w) == pc[w] = "idle" /\ StartRun(w)

ConcStep(w) ==
  \/ StartOnce(w)
  \/ SetupCandidateTable(w)
  \/ FetchBlocks(w)
  \/ GenerateBlock(w)
  \/ FlushCandidates(w)
  \/ FlushConflict(w)
  \/ ScoreRead(w)
  \/ ScoreWrite(w)
  \/ LoadEdges(w)
  \/ SelectNames(w)
  \/ InsertMaster(w)
  \/ LinkRecords(w)
  \/ Commit(w)
  \/ DeadlockAbort(w)

\* Two workers running main() against the one store.
NextConc == \E w \in Workers : ConcStep(w)

SpecConc == InitConc /\ [][NextConc]_vars

\* One pair handed to the scorer; the engine's store plays no part.
InitScore ==
  /\ InitStore
  /\ \A i \in Ids : /\ given_name[i] = NameChoices[1].given
                     /\ family_name[i] = NameChoices[1].family
                     /\ orcid_id[i] = NULL
  /\ test_authorship = {}
  /\ \E o \in OrcidPairChoices :
     \E pubs, co, aff, kw \in 1 .. Len(ListPairChoices) :
       /\ profile_a = [orcid |-> o.a,
                       publication_titles |-> ListPairChoices[pubs].a,
                       co_authors |-> ListPairChoices[co].a,
                       affiliations |-> ListPairChoices[aff].a,
                       keywords |-> ListPairChoices[kw].a]
       /\ profile_b = [orcid |-> o.b,
                       publication_titles |-> ListPairChoices[pubs].b,
                       co_authors |-> ListPairChoices[co].b,
                       affiliations |-> ListPairChoices[aff].b,
                       keywords |-> ListPairChoices[kw].b]
  /\ name_similarity \in NameSimChoices
  /\ spc = "start"
  /\ S = NoWeights
  /\ C = NoWeights
  /\ RAW_W = NoWeights
  /\ total_raw_weight = 0
  /\ DYN_W = NoDynWeights
  /\ final_score = ZeroScore
  /\ decision = "NONE"

NextScore ==
  \/ ComputeSimilarities
  \/ ComputeRawWeights
  \/ ComputeFinalScore
  \/ Decide

SpecScore == InitScore /\ [][NextScore]_vars

\* ------------------------------------------------------------ properties
Merging == {"select", "insert", "link"}

\* The records the run of w fetched as unprocessed, block by block.
Considered(w) == UNION {e.members : e \in block_log[w]}

\* The records that are an endpoint of an accepted pair of the run of w.
EdgeNodes(w) == {e[1] : e \in edges[w]} \cup {e[2] : e \in edges[w]}

Linked(i) == master_author_id[i] # NoMaster

\* C1: the clusters cluster_and_merge produces are a partition of the
\* unresolved records: every unresolved record is in exactly one cluster
\* and the clusters are pairwise disjoint.
C1_ClustersPartitionUnresolved ==
  \A w \in Workers :
    pc[w] \in Merging =>
      /\ UNION clusters[w] = Unresolved
      /\ \A c, d \in clusters[w] : c # d => c \cap d = {}

\* C2: clustering is transitive: when (A,B) and (B,C) are accepted pairs of
\* a run, every cluster of the run that holds one of A, B, C holds all three,
\* and the run links them to one master, with or without a candidate pair
\* (A,C).
C2_TransitiveClusters ==
  \A w \in Workers :
    /\ pc[w] \in Merging =>
         \A e \in edges[w] : \A c \in clusters[w] :
           {e[1], e[2]} \cap c # {} => {e[1], e[2]} \subseteq c
    /\ pc[w] = "done" =>
         \A e, f \in edges[w] :
           {e[1], e[2]} \cap {f[1], f[2]} # {} =>
             /\ Linked(e[1])
             /\ \A i \in {e[1], e[2], f[1], f[2]} :
                  master_author_id[i] = master_author_id[e[1]]

\* A finished run with accepted pairs (A,B) and (B,C) and no candidate row
\* for A and C at all, the three linked to one master.
C2_Witness ==
  /\ pc["w1"] = "done"
  /\ \E a, b, c \in Ids :
       /\ a # b /\ b # c /\ a # c
       /\ (<<a, b>> \in edges["w1"] \/ <<b, a>> \in edges["w1"])
       /\ (<<b, c>> \in edges["w1"] \/ <<c, b>> \in edges["w1"])
       /\ \A r \in match_candidates : {r.author_id_a, r.author_id_b} # {a, c}
       /\ Linked(a)
       /\ master_author_id[a] = master_author_id[b]
       /\ master_author_id[b] = master_author_id[c]

\* C3: after a run, every unresolved record without an accepted pair is
\* linked to a master of its own.
C3_SingletonGetsMaster ==
  \A w \in Workers :
    pc[w] = "done" =>
      \A i \in Considered(w) \ EdgeNodes(w) :
        /\ Linked(i)
        /\ \A j \in Ids \ {i} : master_author_id[j] # master_author_id[i]

\* C4: once a run has completed, a further run on the state it left adds no
\* master_author row and changes the link of no linked record.
C4_SecondRunIdempotent ==
  [][(\E w \in Workers : completed[w] \/ pc[w] = "done") =>
       /\ {r.id : r \in master_author'} = {r.id : r \in master_author}
       /\ \A i \in Ids : Linked(i) => master_author_id'[i] = master_author_id[i]]_vars

\* A second run has finished on the state of a completed first run that
\* linked records to a master with an ORCID and left two records of one
\* block unlinked.
C4_Witness ==
  /\ completed["w1"]
  /\ pc["w1"] = "done"
  /\ \E i \in Ids : \E r \in master_author :
       r.id = master_author_id[i] /\ OrcidSet(r.primary_orcid)
  /\ match_candidates # {}

\* The clusters the transaction of w has linked or has in hand.
InHand(w) == mids[w] \cup (IF cur[w].cluster = {} THEN {} ELSE {cur[w]})

\* At most one master_author row carries a given non-empty ORCID.
UniqueOrcid ==
  \A r, t \in master_author :
    OrcidSet(r.primary_orcid) /\ r.primary_orcid = t.primary_orcid => r.id = t.id

\* Two finished runs that each merged a cluster with the same canonical
\* ORCID have linked both clusters to the one row of that ORCID.
SameOrcidConverges ==
  \A w, v \in Workers : \A m \in mids[w] : \A n \in mids[v] :
    ( /\ w # v /\ pc[w] = "done" /\ pc[v] = "done"
      /\ OrcidSet(m.best_orcid) /\ m.best_orcid = n.best_orcid ) =>
        /\ m.mid = n.mid
        /\ \A i \in m.cluster \cup n.cluster : master_author_id[i] = m.mid

\* No run fails while it merges a cluster whose canonical ORCID another
\* worker's merge has in hand too.
SameOrcidNeverFails ==
  \A w, v \in Workers :
    (w # v /\ pc[w] = "failed") =>
      \A m \in InHand(w) : \A n \in InHand(v) :
        ~(OrcidSet(m.best_orcid) /\ m.best_orcid = n.best_orcid)

\* C5: at most one master row per non-empty ORCID in every state, and two
\* workers that merge clusters with the same canonical ORCID at the same
\* time both link them to one row, neither run failing.
C5_ConcurrentUpsertConverges ==
  UniqueOrcid /\ SameOrcidConverges /\ SameOrcidNeverFails

\* C6: no state of the store shows a cluster of which some members are
\* linked and the others are not, also not after an error in the middle of
\* cluster_and_merge.
C6_NoPartialLinkage ==
  \A w \in Workers : \A c \in clusters[w] :
    (\A i \in c : Linked(i)) \/ (\A i \in c : ~Linked(i))

\* An error struck after a cluster had been linked inside the transaction;
\* none of its members is linked in the store.
C6_Witness ==
  /\ pc["w1"] = "failed"
  /\ mids["w1"] # {}
  /\ \A m \in mids["w1"] : \A i \in m.cluster : ~Linked(i)

\* C7: an error while merging one cluster leaves the clusters merged before
\* it committed, and the run goes on with the clusters after it.
C7_ErrorIsolatedToCluster ==
  \A w \in Workers :
    pc[w] = "failed" =>
      /\ \A m \in mids[w] : \A i \in m.cluster : master_author_id[i] = m.mid
      /\ Len(todo[w]) <= 1

\* C8: no candidate pair has a linked record on either side, and no linked
\* record is a member of a cluster.
C8_OnlyUnresolvedTakePart ==
  \A w \in Workers :
    /\ pc[w] \in {"blocking", "score", "score_write", "load"} \cup Merging =>
         /\ \A r \in batch_inserts[w] : ~Linked(r.a) /\ ~Linked(r.b)
         /\ \A r \in match_candidates : ~Linked(r.author_id_a) /\ ~Linked(r.author_id_b)
    /\ pc[w] \in Merging => \A c \in clusters[w] : \A i \in c : ~Linked(i)

\* A run emits a candidate pair from a block that also holds a record an
\* earlier run linked.
C8_Witness ==
  /\ pc["w1"] = "blocking"
  /\ \E r \in batch_inserts["w1"] : \E i \in Ids :
       /\ Linked(i)
       /\ Lower(family_name[i]) = Lower(family_name[r.a])
       /\ Lower(FirstChar(given_name[i])) = Lower(FirstChar(given_name[r.a]))

\* C9: every candidate pair is two distinct records with the same lower-cased
\* family name and the same lower-cased first initial, neither with an empty
\* family name; a block of fewer than 2 members yields no pair.
C9_ExactKeyBlocking ==
  \A w \in Workers :
    /\ \A r \in batch_inserts[w] \cup UNION {e.pairs : e \in block_log[w]} :
         /\ r.a # r.b
         /\ Lower(family_name[r.a]) = Lower(family_name[r.b])
         /\ Lower(FirstChar(given_name[r.a])) = Lower(FirstChar(given_name[r.b]))
         /\ family_name[r.a] # <<>> /\ family_name[r.b] # <<>>
    /\ \A e \in block_log[w] : Cardinality(e.members) < 2 => e.pairs = {}

\* The loop has met a block of one record and a block of a record without a
\* family name, and has emitted a pair of two records whose family names
\* differ in case only.
C9_Witness ==
  /\ \E e \in block_log["w1"] : Cardinality(e.members) = 1 /\ e.pairs = {}
  /\ \E e \in block_log["w1"] : e.key.lname = <<>> /\ e.members # {} /\ e.pairs = {}
  /\ \E r \in batch_inserts["w1"] : family_name[r.a] # family_name[r.b]

\* C10: a block with more members than the ceiling is skipped as a whole:
\* it yields no candidate pair.
C10_SafetyValve ==
  \A w \in Workers : \A e \in block_log[w] :
    Cardinality(e.members) > BlockCeiling => e.pairs = {} /\ e.skipped

\* score >= 0.7
AtOrAboveThreshold(score) ==
  score.num * DECISION_THRESHOLD.den >= DECISION_THRESHOLD.num * score.den

\* C11: the decision for a scored pair is MATCH exactly when its final
\* score is greater than or equal to the accept threshold 0.7; a score equal
\* to the threshold is a match.
C11_MatchIffAtOrAboveThreshold ==
  spc = "decided" => (decision = "MATCH" <=> AtOrAboveThreshold(final_score))

RECURSIVE FirstOrcid(_, _)
\* The first non-empty orcid_id of the rows from position k on, NULL when
\* there is none.
FirstOrcid(rows, k) ==
  IF k > Len(rows) THEN NULL
  ELSE IF OrcidSet(orcid_id[rows[k]]) THEN orcid_id[rows[k]]
  ELSE FirstOrcid(rows, k + 1)

\* C12: for a cluster whose members carry non-empty identifiers, the
\* identifier chosen for the master is the first non-empty one in the order
\* in which the members are iterated, also when a later member carries a
\* different one.
C12_FirstIdentifierIsCanonical ==
  \A w \in Workers :
    (pc[w] \in {"insert", "link"} /\ cur[w].cluster # {})
      => cur[w].best_orcid = FirstOrcid(cur[w].rows, 1)

\* C13: the stored total_score of every candidate pair (name_score plus
\* co-author boost) lies within 0 to 100, the scale on which the accept
\* threshold 70.0 is defined.
C13_TotalScoreOnFixedScale ==
  \A r \in match_candidates : r.total_score >= 0 /\ r.total_score <= 100

\* C14: the set-overlap similarity is 0 whenever at least one of the two
\* sets is empty, also when both are empty; otherwise it is
\* |A n B| / |A u B| over the lower-cased elements.
C14_JaccardZeroOnEmpty ==
  spc \in {"similarities", "weights", "scored", "decided"} =>
    \A sig \in { [key |-> "PUBS", attr |-> "publication_titles"],
                 [key |-> "COAUTHORS", attr |-> "co_authors"],
                 [key |-> "AFFILIATION", attr |-> "affiliations"],
                 [key |-> "KEYWORDS", attr |-> "keywords"] } :
      LET set_a == ItemSet(profile_a[sig.attr])
          set_b == ItemSet(profile_b[sig.attr])
      IN IF set_a = {} \/ set_b = {} THEN S[sig.key] = 0
         ELSE S[sig.key] * Cardinality(set_a \cup set_b)
                = Unit * Cardinality(set_a \cap set_b)

\* score < 0.7
BelowThreshold(score) ==
  score.num * DECISION_THRESHOLD.den < DECISION_THRESHOLD.num * score.den

\* The pair has no matching identifier, name similarity 0, no publications,
\* co-authors or keywords on either side, and overlapping affiliations.
OnlyAffiliationOverlaps ==
  /\ calculate_id_similarity(profile_a, profile_b) = 0
  /\ name_similarity = 0
  /\ \A attr \in {"publication_titles", "co_authors", "keywords"} :
       ItemSet(profile_a[attr]) = {} /\ ItemSet(profile_b[attr]) = {}
  /\ ItemSet(profile_a.affiliations) \cap ItemSet(profile_b.affiliations) # {}

\* C15: a pair with no matching identifier, name similarity 0, empty
\* publication, co-author and keyword sets on both sides and affiliation as
\* the only overlapping signal scores below 0.7 and is decided NO_MATCH.
C15_ZeroEvidenceBelowThreshold ==
  (spc = "decided" /\ OnlyAffiliationOverlaps)
    => (BelowThreshold(final_score) /\ decision = "NO_MATCH")

\* C16: a signal whose raw similarity is below the floor 0.1 gets the raw
\* weight base_weight x confidence x 0.1 (its confidence is kept and
\* multiplied by the penalty); every other signal gets base_weight x
\* confidence.
C16_PenaltyKeepsConfidence ==
  spc \in {"weights", "scored", "decided"} =>
    \A key \in Keys :
      RAW_W[key] = IF S[key] < LOW_FLOOR THEN W_BASE[key] * C[key] * PENALTY
                   ELSE W_BASE[key] * C[key] * 100

\* C17: for all signal similarities in [0,1] the total raw weight is
\* strictly positive (the zero-total return is never taken), the dynamic
\* weights sum to 1, and the final score lies in [0,1].
C17_WeightsNormalised ==
  spc \in {"scored", "decided"} =>
    /\ \A key \in Keys : S[key] >= 0 /\ S[key] <= Unit
    /\ total_raw_weight > 0
    /\ \A key \in Keys : DYN_W[key].den = total_raw_weight
    /\ Sum([key \in Keys |-> DYN_W[key].num], Keys) = total_raw_weight
    /\ final_score.den > 0
    /\ final_score.num >= 0
    /\ final_score.num <= final_score.den

\* A pair has been scored with a penalised signal, a signal of confidence 0
\* and a score strictly between 0 and 1.
C17_Witness ==
  /\ spc = "scored"
  /\ \E key \in Keys : S[key] <= LOW_FLOOR
  /\ \E key \in Keys : S[key] > LOW_FLOOR /\ RAW_W[key] = 0
  /\ final_score.num > 0
  /\ final_score.num < final_score.den

\* C18: once a record's master link is set, no later step and no other
\* run, under any interleaving of runs over the shared store, changes it to
\* a different master or clears it; and a link is changed only for a
\* member of a cluster of a run in progress.
C18_MasterLinkStable ==
  [][\A i \in Ids :
       /\ Linked(i) => master_author_id'[i] = master_author_id[i]
       /\ master_author_id'[i] # master_author_id[i]
            => \E w \in Workers : i \in UNION clusters[w]]_vars
====
